---- MODULE Spec2Model ----
(***************************************************************************)
(* Model of the three renaming scripts fasta_rename.py, gxf_rename.py and  *)
(* gff3_rename.py.  A file is the sequence of lines Python's text-mode     *)
(* iteration yields: each line is a sequence of one-character strings,     *)
(* ends with "\n" except possibly the last line, and holds no other "\n".  *)
(* Each script is one run of main(): validation and table loading, then    *)
(* one step per input line, then the end-of-stream report.  The usage text *)
(* at the head of gxf_rename.py is read as the module's docstring.         *)
(***************************************************************************)
EXTENDS Naturals, Sequences, FiniteSets

VARIABLES prog, input, table, pc, i, mapping_table, multiple_matches,
          outfile, opened, warnings, result

vars == <<prog, input, table, pc, i, mapping_table, multiple_matches,
          outfile, opened, warnings, result>>

\* Bounds of the model: lines of the input file, lines of the table file.
MaxLines == 2
MaxRows == 2

(***************************************************************************)
(* Characters and Python's str operations                                  *)
(***************************************************************************)
TAB == "\t"
NL == "\n"
SP == " "
QUOTE == "\""
GT == ">"
HASH == "#"
\* The end-of-line marker the csv reader feeds itself after each line.
EOL == "EOL"

\* str.isspace() over the characters of the model
IsSpace(c) == c \in {SP, TAB, NL}

\* line.startswith(c)
StartsWith(s, c) == Len(s) > 0 /\ s[1] = c

RECURSIVE LStrip(_)
LStrip(s) == IF s # <<>> /\ IsSpace(Head(s)) THEN LStrip(Tail(s)) ELSE s

RECURSIVE RStrip(_)
RStrip(s) ==
  IF s # <<>> /\ IsSpace(s[Len(s)]) THEN RStrip(SubSeq(s, 1, Len(s) - 1)) ELSE s

\* str.strip(): leading and trailing whitespace removed
Strip(s) == RStrip(LStrip(s))

\* sub in s, for strings: sub occurs in s as a contiguous substring
Contains(sub, s) ==
  \E k \in 0..Len(s) : k + Len(sub) <= Len(s) /\ SubSeq(s, k + 1, k + Len(sub)) = sub

\* s.split(sep): "" splits into one empty field
RECURSIVE Split(_, _)
Split(s, sep) ==
  IF \A k \in 1..Len(s) : s[k] # sep
  THEN <<s>>
  ELSE LET p == CHOOSE k \in 1..Len(s) : s[k] = sep /\ \A j \in 1..(k - 1) : s[j] # sep
       IN  <<SubSeq(s, 1, p - 1)>> \o Split(SubSeq(s, p + 1, Len(s)), sep)

\* sep.join(cols)
RECURSIVE Join(_, _)
Join(cols, sep) ==
  IF cols = <<>> THEN <<>>
  ELSE IF Len(cols) = 1 THEN cols[1]
  ELSE cols[1] \o <<sep>> \o Join(Tail(cols), sep)

(***************************************************************************)
(* dict (insertion-ordered): a sequence of <<key, value>> with unique keys *)
(***************************************************************************)
Keys(d) == {d[k][1] : k \in 1..Len(d)}

\* d[key]
Lookup(d, key) == d[CHOOSE k \in 1..Len(d) : d[k][1] = key][2]

\* d[key] = value: an existing key keeps its position and takes the value
DictSet(d, key, value) ==
  IF key \in Keys(d)
  THEN [k \in 1..Len(d) |-> IF d[k][1] = key THEN <<key, value>> ELSE d[k]]
  ELSE Append(d, <<key, value>>)

\* DictExtend with a plain dict: d.get(key, []).extend(values) stores nothing
\* for a key that is not yet in d
DictExtendNoInsert(d, key, values) ==
  [k \in 1..Len(d) |-> IF d[k][1] = key THEN <<key, d[k][2] \o values>> ELSE d[k]]

\* defaultdict(list): d[key].extend(values)
DictExtend(d, key, values) ==
  IF key \in Keys(d)
  THEN [k \in 1..Len(d) |-> IF d[k][1] = key THEN <<key, d[k][2] \o values>> ELSE d[k]]
  ELSE Append(d, <<key, values>>)

(***************************************************************************)
(* csv.reader(f, delimiter='\t'): the default dialect's quoting applies    *)
(* (quotechar '"', doublequote, not strict).                               *)
(***************************************************************************)
\* the characters the reader sees: each line followed by its end marker
RECURSIVE CsvStream(_)
CsvStream(lines) ==
  IF lines = <<>> THEN <<>> ELSE Head(lines) \o <<EOL>> \o CsvStream(Tail(lines))

\* the reader's state machine: st is its state, fld the field being built,
\* flds the fields of the record being built, rows the records read so far
RECURSIVE CsvParse(_, _, _, _, _)
CsvParse(s, st, fld, flds, rows) ==
  IF s = <<>>
  THEN IF st = "IN_QUOTED_FIELD" THEN Append(rows, Append(flds, fld)) ELSE rows
  ELSE
    LET c == Head(s)
        r == Tail(s)
        saved == Append(flds, fld)
    IN
    CASE st = "START_RECORD" /\ c = EOL -> CsvParse(r, "START_RECORD", <<>>, <<>>, Append(rows, <<>>))
      [] st = "START_RECORD" /\ c = NL -> CsvParse(r, "EAT_CRNL", <<>>, <<>>, rows)
      [] st \in {"START_RECORD", "START_FIELD"} /\ c = QUOTE ->
           CsvParse(r, "IN_QUOTED_FIELD", <<>>, flds, rows)
      [] st \in {"START_RECORD", "START_FIELD"} /\ c = TAB ->
           CsvParse(r, "START_FIELD", <<>>, saved, rows)
      [] st = "START_FIELD" /\ c = NL -> CsvParse(r, "EAT_CRNL", <<>>, saved, rows)
      [] st = "START_FIELD" /\ c = EOL ->
           CsvParse(r, "START_RECORD", <<>>, <<>>, Append(rows, saved))
      [] st \in {"START_RECORD", "START_FIELD"} /\ c \notin {EOL, NL, QUOTE, TAB} ->
           CsvParse(r, "IN_FIELD", <<c>>, flds, rows)
      [] st = "IN_FIELD" /\ c = NL -> CsvParse(r, "EAT_CRNL", <<>>, saved, rows)
      [] st = "IN_FIELD" /\ c = EOL ->
           CsvParse(r, "START_RECORD", <<>>, <<>>, Append(rows, saved))
      [] st = "IN_FIELD" /\ c = TAB -> CsvParse(r, "START_FIELD", <<>>, saved, rows)
      [] st = "IN_FIELD" /\ c \notin {NL, EOL, TAB} ->
           CsvParse(r, "IN_FIELD", Append(fld, c), flds, rows)
      [] st = "IN_QUOTED_FIELD" /\ c = EOL -> CsvParse(r, "IN_QUOTED_FIELD", fld, flds, rows)
      [] st = "IN_QUOTED_FIELD" /\ c = QUOTE ->
           CsvParse(r, "QUOTE_IN_QUOTED_FIELD", fld, flds, rows)
      [] st = "IN_QUOTED_FIELD" /\ c \notin {EOL, QUOTE} ->
           CsvParse(r, "IN_QUOTED_FIELD", Append(fld, c), flds, rows)
      [] st = "QUOTE_IN_QUOTED_FIELD" /\ c = QUOTE ->
           CsvParse(r, "IN_QUOTED_FIELD", Append(fld, c), flds, rows)
      [] st = "QUOTE_IN_QUOTED_FIELD" /\ c = TAB ->
           CsvParse(r, "START_FIELD", <<>>, saved, rows)
      [] st = "QUOTE_IN_QUOTED_FIELD" /\ c = NL -> CsvParse(r, "EAT_CRNL", <<>>, saved, rows)
      [] st = "QUOTE_IN_QUOTED_FIELD" /\ c = EOL ->
           CsvParse(r, "START_RECORD", <<>>, <<>>, Append(rows, saved))
      [] st = "QUOTE_IN_QUOTED_FIELD" /\ c \notin {QUOTE, TAB, NL, EOL} ->
           CsvParse(r, "IN_FIELD", Append(fld, c), flds, rows)
      [] st = "EAT_CRNL" /\ c = EOL ->
           CsvParse(r, "START_RECORD", <<>>, <<>>, Append(rows, flds))
      [] st = "EAT_CRNL" /\ c = NL -> CsvParse(r, "EAT_CRNL", fld, flds, rows)

\* the rows csv.reader yields for a file
CsvReader(lines) == CsvParse(CsvStream(lines), "START_RECORD", <<>>, <<>>, <<>>)

(***************************************************************************)
(* Functions shared by the three scripts                                   *)
(***************************************************************************)
\* validate_table: every row csv.reader yields has exactly two fields
validate_table(lines) ==
  LET rows == CsvReader(lines) IN \A k \in 1..Len(rows) : Len(rows[k]) = 2

\* the loop of load_table: table[row[0]] = row[1] for each row in turn
RECURSIVE LoadRows(_, _)
LoadRows(rows, d) ==
  IF rows = <<>> THEN d
  ELSE LoadRows(Tail(rows), DictSet(d, Head(rows)[1], Head(rows)[2]))

\* load_table: the rows of the file put into a dict
load_table(lines) == LoadRows(CsvReader(lines), <<>>)

\* Replacements stopping at the first matching entry
RECURSIVE FirstReplacement(_, _)
FirstReplacement(id, mt) ==
  IF mt = <<>> THEN <<>>
  ELSE IF Contains(Head(mt)[1], id) THEN <<Head(mt)[2]>>
  ELSE FirstReplacement(id, Tail(mt))

\* [new_id for old_id, new_id in mapping_table.items() if old_id in id_]
RECURSIVE Replacements(_, _)
Replacements(id, mt) ==
  IF mt = <<>> THEN <<>>
  ELSE (IF Contains(Head(mt)[1], id) THEN <<Head(mt)[2]>> ELSE <<>>)
       \o Replacements(id, Tail(mt))

\* the exit code of the process for each way main() ends
ExitCode(res) == IF res = "success" THEN 0 ELSE 1

\* Report with its test inverted
ReportInverted(mm) == IF mm = <<>> THEN "failure" ELSE "success"

\* the end-of-stream report: raise typer.Exit(code=1) if multiple_matches
Report(mm) == IF mm # <<>> THEN "failure" ELSE "success"

(***************************************************************************)
(* fasta_rename.py                                                         *)
(***************************************************************************)
\* validate_fasta: some line starts with ">"
validate_fasta(lines) == \E k \in 1..Len(lines) : StartsWith(lines[k], GT)

\* id_ = line[1:].strip()
FastaId(line) == Strip(Tail(line))

\* FastaRewrite without the newline
FastaRewriteNoNewline(new) == <<GT>> \o new

\* the header written on a unique match: ">" + replacements[0] + "\n"
FastaRewrite(new) == <<GT>> \o new \o <<NL>>

\* main() up to the opening of the files: both validations, then load_table
FastaStart ==
  /\ prog = "fasta" /\ pc = "start"
  /\ IF ~validate_fasta(input)
     THEN /\ pc' = "done" /\ result' = "invalid_input"
          /\ UNCHANGED <<mapping_table, opened>>
     ELSE IF ~validate_table(table)
     THEN /\ pc' = "done" /\ result' = "invalid_table"
          /\ UNCHANGED <<mapping_table, opened>>
     ELSE /\ mapping_table' = load_table(table)
          /\ opened' = TRUE
          /\ pc' = "streaming" /\ UNCHANGED result
  /\ UNCHANGED <<prog, input, table, i, multiple_matches, outfile, warnings>>

\* one iteration of "for line in infile"
FastaLine ==
  /\ prog = "fasta" /\ pc = "streaming" /\ i <= Len(input)
  /\ LET line == input[i]
         id_ == FastaId(line)
         replacements == Replacements(id_, mapping_table)
     IN  IF StartsWith(line, GT)
         THEN IF Len(replacements) > 1
              THEN /\ multiple_matches' = DictExtend(multiple_matches, id_, replacements)
                   /\ outfile' = Append(outfile, line)
                   /\ UNCHANGED warnings
              ELSE IF Len(replacements) = 1
              THEN /\ outfile' = Append(outfile, FastaRewrite(replacements[1]))
                   /\ UNCHANGED <<multiple_matches, warnings>>
              ELSE /\ warnings' = Append(warnings, <<"nomatch", id_>>)
                   /\ outfile' = Append(outfile, line)
                   /\ UNCHANGED multiple_matches
         ELSE /\ outfile' = Append(outfile, line)
              /\ UNCHANGED <<multiple_matches, warnings>>
  /\ i' = i + 1
  /\ UNCHANGED <<prog, input, table, pc, mapping_table, opened, result>>

\* after the loop: the check for multiple matches
FastaEnd ==
  /\ prog = "fasta" /\ pc = "streaming" /\ i > Len(input)
  /\ pc' = "done" /\ result' = Report(multiple_matches)
  /\ UNCHANGED <<prog, input, table, i, mapping_table, multiple_matches,
                 outfile, opened, warnings>>

(***************************************************************************)
(* gxf_rename.py                                                           *)
(***************************************************************************)
\* the field count below which a data line is malformed
GxfMinColumns == 8
\* the index (from 0) of the attributes column
AttrColumn == 8

\* columns = line.strip().split("\t")
Columns(line) == Split(Strip(line), TAB)

\* validate_gxf: some non-comment line has at least 8 columns
validate_gxf(lines) ==
  \E k \in 1..Len(lines) :
    ~StartsWith(lines[k], HASH) /\ Len(Columns(lines[k])) >= GxfMinColumns

\* GxfRewrite replacing the column before the attributes column
GxfRewriteWrongColumn(columns, new) ==
  Join([columns EXCEPT ![AttrColumn] = new], TAB) \o <<NL>>

\* columns[8] = replacements[0]; "\t".join(columns) + "\n"
GxfRewrite(columns, new) ==
  Join([columns EXCEPT ![AttrColumn + 1] = new], TAB) \o <<NL>>

\* main() up to the opening of the files
GxfStart ==
  /\ prog = "gxf" /\ pc = "start"
  /\ IF ~validate_gxf(input)
     THEN /\ pc' = "done" /\ result' = "invalid_input"
          /\ UNCHANGED <<mapping_table, opened>>
     ELSE IF ~validate_table(table)
     THEN /\ pc' = "done" /\ result' = "invalid_table"
          /\ UNCHANGED <<mapping_table, opened>>
     ELSE /\ mapping_table' = load_table(table)
          /\ opened' = TRUE
          /\ pc' = "streaming" /\ UNCHANGED result
  /\ UNCHANGED <<prog, input, table, i, multiple_matches, outfile, warnings>>

\* one iteration of "for line in infile"; columns[8] of a line of exactly 8
\* columns raises IndexError, which ends the process
GxfLine ==
  /\ prog = "gxf" /\ pc = "streaming" /\ i <= Len(input)
  /\ LET line == input[i]
         columns == Columns(line)
         id_ == columns[AttrColumn + 1]
         replacements == Replacements(id_, mapping_table)
     IN  IF StartsWith(line, HASH)
         THEN /\ outfile' = Append(outfile, line)
              /\ i' = i + 1
              /\ UNCHANGED <<multiple_matches, warnings, pc, result>>
         ELSE IF Len(columns) < GxfMinColumns
         THEN /\ warnings' = Append(warnings, <<"malformed", Strip(line)>>)
              /\ i' = i + 1
              /\ UNCHANGED <<multiple_matches, outfile, pc, result>>
         ELSE IF Len(columns) <= AttrColumn
         THEN /\ pc' = "done" /\ result' = "crash"
              /\ UNCHANGED <<multiple_matches, outfile, warnings, i>>
         ELSE /\ i' = i + 1
              /\ UNCHANGED <<pc, result>>
              /\ IF Len(replacements) > 1
                 THEN /\ multiple_matches' = DictExtend(multiple_matches, id_, replacements)
                      /\ outfile' = Append(outfile, line)
                      /\ UNCHANGED warnings
                 ELSE IF Len(replacements) = 1
                 THEN /\ outfile' = Append(outfile, GxfRewrite(columns, replacements[1]))
                      /\ UNCHANGED <<multiple_matches, warnings>>
                 ELSE /\ warnings' = Append(warnings, <<"nomatch", id_>>)
                      /\ outfile' = Append(outfile, line)
                      /\ UNCHANGED multiple_matches
  /\ UNCHANGED <<prog, input, table, mapping_table, opened>>

\* after the loop: the check for multiple matches
GxfEnd ==
  /\ prog = "gxf" /\ pc = "streaming" /\ i > Len(input)
  /\ pc' = "done" /\ result' = Report(multiple_matches)
  /\ UNCHANGED <<prog, input, table, i, mapping_table, multiple_matches,
                 outfile, opened, warnings>>

(***************************************************************************)
(* gff3_rename.py                                                          *)
(***************************************************************************)
\* the column count validate_gff3 requires of every data line
Gff3Columns == 9

\* validate_gff3: every non-comment line has exactly 9 columns
validate_gff3(lines) ==
  \A k \in 1..Len(lines) :
    ~StartsWith(lines[k], HASH) => Len(Columns(lines[k])) = Gff3Columns

\* Gff3Replace matching by containment, as the other two scripts do
Gff3ReplaceContained(columns, mt) ==
  IF Replacements(columns[1], mt) # <<>>
  THEN [columns EXCEPT ![1] = Replacements(columns[1], mt)[1]]
  ELSE columns

\* if id_ in mapping_table: columns[0] = mapping_table[id_]
Gff3Replace(columns, mt) ==
  IF columns[1] \in Keys(mt)
  THEN [columns EXCEPT ![1] = Lookup(mt, columns[1])]
  ELSE columns

\* main() up to the opening of the files
Gff3Start ==
  /\ prog = "gff3" /\ pc = "start"
  /\ IF ~validate_gff3(input)
     THEN /\ pc' = "done" /\ result' = "invalid_input"
          /\ UNCHANGED <<mapping_table, opened>>
     ELSE IF ~validate_table(table)
     THEN /\ pc' = "done" /\ result' = "invalid_table"
          /\ UNCHANGED <<mapping_table, opened>>
     ELSE /\ mapping_table' = load_table(table)
          /\ opened' = TRUE
          /\ pc' = "streaming" /\ UNCHANGED result
  /\ UNCHANGED <<prog, input, table, i, multiple_matches, outfile, warnings>>

\* one iteration of "for line in infile"
Gff3Line ==
  /\ prog = "gff3" /\ pc = "streaming" /\ i <= Len(input)
  /\ LET line == input[i]
     IN  IF StartsWith(line, HASH)
         THEN outfile' = Append(outfile, line)
         ELSE outfile' =
                Append(outfile, Join(Gff3Replace(Columns(line), mapping_table), TAB) \o <<NL>>)
  /\ i' = i + 1
  /\ UNCHANGED <<prog, input, table, pc, mapping_table, multiple_matches,
                 opened, warnings, result>>

\* the end of main(): the command returns
Gff3End ==
  /\ prog = "gff3" /\ pc = "streaming" /\ i > Len(input)
  /\ pc' = "done" /\ result' = "success"
  /\ UNCHANGED <<prog, input, table, i, mapping_table, multiple_matches,
                 outfile, opened, warnings>>

(***************************************************************************)
(* Input files                                                             *)
(***************************************************************************)
SeqsUpTo(S, n) == UNION {[1..m -> S] : m \in 0..n}

\* every line ends with a newline
Terminated(bs) == [k \in 1..Len(bs) |-> bs[k] \o <<NL>>]

\* the last line has no newline
Unterminated(bs) ==
  [k \in 1..Len(bs) |-> IF k = Len(bs) THEN bs[k] ELSE bs[k] \o <<NL>>]

Files(S, n) ==
  {Terminated(bs) : bs \in SeqsUpTo(S, n)}
  \cup {Unterminated(bs) : bs \in {b \in SeqsUpTo(S, n) : b # <<>> /\ b[Len(b)] # <<>>}}

\* a table line: old id, tab, new id
Row(old, new) == old \o <<TAB>> \o new

FastaBodies ==
  { <<GT, "a">>, <<GT, SP, "a">>, <<GT, "a", "b">>, <<GT, "a", SP, "c">>, <<"c">> }

FastaTableBodies ==
  { Row(<<"a">>, <<"X">>), Row(<<"a">>, <<"Y">>), Row(<<"a">>, <<"a">>),
    Row(<<"b">>, <<"b">>), <<>>, <<"a", TAB, "X", TAB, "Y">>,
    <<QUOTE, TAB, QUOTE, TAB, "X">> }

InitRun ==
  /\ pc = "start" /\ i = 1 /\ mapping_table = <<>> /\ multiple_matches = <<>>
  /\ outfile = <<>> /\ opened = FALSE /\ warnings = <<>> /\ result = "none"

InitFasta ==
  /\ prog = "fasta"
  /\ input \in Files(FastaBodies, MaxLines)
  /\ table \in {Terminated(bs) : bs \in SeqsUpTo(FastaTableBodies, MaxRows)}
  /\ InitRun

NextFasta == FastaStart \/ FastaLine \/ FastaEnd

SpecFasta == InitFasta /\ [][NextFasta]_vars


\* a data line of 8 columns, and one of 9: seqid, seven "." columns, attributes
Fields8(seqid) ==
  <<seqid, <<".">>, <<".">>, <<".">>, <<".">>, <<".">>, <<".">>, <<".">>>>
Line8(seqid) == Join(Fields8(seqid), TAB)
Line9(seqid, attrs) == Join(Append(Fields8(seqid), attrs), TAB)

GxfBodies ==
  { <<HASH, "c">>, <<"x">>, Line8(<<"s">>), Line9(<<"s">>, <<"a">>),
    Line9(<<"s">>, <<"a", "b">>), Line9(<<SP, "s">>, <<"a">>) }

GxfTableBodies ==
  { Row(<<"a">>, <<"X">>), Row(<<"b">>, <<"Y">>), Row(<<"a">>, <<"Y">>), <<>> }

InitGxf ==
  /\ prog = "gxf"
  /\ input \in Files(GxfBodies, MaxLines)
  /\ table \in {Terminated(bs) : bs \in SeqsUpTo(GxfTableBodies, MaxRows)}
  /\ InitRun

NextGxf == GxfStart \/ GxfLine \/ GxfEnd

SpecGxf == InitGxf /\ [][NextGxf]_vars

Gff3Bodies ==
  { <<HASH, "c">>, <<"x">>, Line9(<<"a">>, <<"z">>), Line9(<<"a", "b">>, <<"z">>),
    Line9(<<"a">>, <<"z", SP>>) }

Gff3TableBodies ==
  { Row(<<"a">>, <<"X">>), Row(<<"a", "b">>, <<"Y">>), Row(<<"a">>, <<"Y">>), <<>> }

InitGff3 ==
  /\ prog = "gff3"
  /\ input \in Files(Gff3Bodies, MaxLines)
  /\ table \in {Terminated(bs) : bs \in SeqsUpTo(Gff3TableBodies, MaxRows)}
  /\ InitRun

NextGff3 == Gff3Start \/ Gff3Line \/ Gff3End

SpecGff3 == InitGff3 /\ [][NextGff3]_vars

(***************************************************************************)
(* The notions the properties are stated in                                *)
(***************************************************************************)
\* the entries of the table file: its rows, in row order
Entries == CsvReader(table)

\* the old ids of the table contained in an identifier
OldIdsOf(id, rows) == {rows[k][1] : k \in {j \in 1..Len(rows) : Contains(rows[j][1], id)}}
OldIdsIn(id) == OldIdsOf(id, Entries)

\* the number of old ids of the table each line's identifier contains
\* (0 for a line that is no header)
HeaderMatchCounts ==
  LET rows == Entries
  IN  [k \in 1..Len(input) |->
         IF input[k] # <<>> /\ input[k][1] = GT
         THEN Cardinality(OldIdsOf(Strip(SubSeq(input[k], 2, Len(input[k]))), rows))
         ELSE 0]

\* the new ids of the entries whose old id is contained in id, in row order
RECURSIVE RowMatches(_, _)
RowMatches(id, rows) ==
  IF rows = <<>> THEN <<>>
  ELSE (IF Contains(Head(rows)[1], id) THEN <<Head(rows)[2]>> ELSE <<>>)
       \o RowMatches(id, Tail(rows))

\* the trimmed identifier of a FASTA header line
HeaderId(line) == Strip(SubSeq(line, 2, Len(line)))

IsHeader(line) == line # <<>> /\ line[1] = GT

\* the lines of the input handled so far
Handled == 1..(i - 1)

\* the identifiers of the no-match headers among the first n lines, in order
RECURSIVE NoMatchIds(_, _)
NoMatchIds(n, counts) ==
  IF n = 0 THEN <<>>
  ELSE NoMatchIds(n - 1, counts)
       \o (IF IsHeader(input[n]) /\ counts[n] = 0
           THEN <<HeaderId(input[n])>> ELSE <<>>)

\* a line without its terminating newline
Body(line) ==
  IF line # <<>> /\ line[Len(line)] = NL THEN SubSeq(line, 1, Len(line) - 1) ELSE line

\* the tab-delimited fields of a line
FieldsOf(line) == Split(Body(line), TAB)

\* the number of tab-delimited fields of a table line
TabFields(line) == Len(FieldsOf(line))

\* the concatenation of a sequence of strings: the bytes of a file
RECURSIVE Concat(_)
Concat(ss) == IF ss = <<>> THEN <<>> ELSE Head(ss) \o Concat(Tail(ss))

C2_AmbiguousFails ==
  (pc = "done" /\ opened) =>
    LET rows == Entries
    IN  \A k \in 1..Len(input) :
          LET id == HeaderId(input[k])
          IN  (IsHeader(input[k]) /\ Len(RowMatches(id, rows)) >= 2) =>
                /\ result = "failure" /\ ExitCode(result) = 1
                /\ id \in Keys(multiple_matches)
                /\ Lookup(multiple_matches, id) = RowMatches(id, rows)

\* C3: a header whose identifier contains no old id is written unchanged and
\* one no-match warning is recorded for it; a run whose headers are all unique
\* matches or no-matches ends in Success (exit code 0), whatever the number of
\* warnings.
C3_NoMatchWarns ==
  opened =>
    LET counts == HeaderMatchCounts
        ids == NoMatchIds(i - 1, counts)
    IN  /\ \A k \in Handled :
             (IsHeader(input[k]) /\ counts[k] = 0) => outfile[k] = input[k]
        /\ warnings = [k \in 1..Len(ids) |-> <<"nomatch", ids[k]>>]
        /\ (pc = "done" /\ \A k \in 1..Len(input) : counts[k] <= 1)
             => (result = "success" /\ ExitCode(result) = 0)

C3_Witness ==
  /\ prog = "fasta" /\ pc = "done" /\ result = "success" /\ Len(warnings) = 2
  /\ warnings[1] = <<"nomatch", HeaderId(input[1])>>
  /\ outfile = input

\* C4: a table file with a line of 0, 1 or 3 or more tab-delimited fields is
\* rejected wherever the line is: the run stops with exit code 1 before
\* streaming, no entry is loaded and nothing is written.
C4_TableRejected ==
  (\E k \in 1..Len(table) : TabFields(table[k]) # 2) =>
    /\ pc # "streaming"
    /\ mapping_table = <<>> /\ ~opened /\ outfile = <<>>
    /\ pc = "done" => ExitCode(result) = 1

\* the table maps every id to itself, each id once
IdentityTable ==
  LET rows == Entries
  IN  /\ rows # <<>>
      /\ \A k \in 1..Len(rows) : rows[k][1] = rows[k][2]
      /\ \A j, k \in 1..Len(rows) : rows[j][1] = rows[k][1] => j = k

\* no header contains two or more ids of the table
NoAmbiguousHeader ==
  LET counts == HeaderMatchCounts IN \A k \in 1..Len(input) : counts[k] <= 1

PlainHeaders ==
  LET rows == Entries
  IN  \A k \in 1..Len(input) :
        IsHeader(input[k]) =>
          \A id \in OldIdsOf(HeaderId(input[k]), rows) : input[k] = <<GT>> \o id \o <<NL>>

C7_OneEntryPerRow ==
  opened =>
    LET rows == Entries
    IN  /\ mapping_table = [k \in 1..Len(rows) |-> <<rows[k][1], rows[k][2]>>]
        /\ \A k \in 1..Len(input) :
             Replacements(HeaderId(input[k]), mapping_table)
               = RowMatches(HeaderId(input[k]), rows)

IsComment(line) == line # <<>> /\ line[1] = HASH

\* the line being handled is a data line of 9 fields
AtNineFieldLine ==
  /\ prog = "gxf" /\ pc = "streaming" /\ i <= Len(input)
  /\ ~IsComment(input[i]) /\ Len(FieldsOf(input[i])) = 9

\* what C6 says the step writes for the line being handled
NineFieldLineWritten ==
  LET rows == Entries
      fields == FieldsOf(input[i])
      ids == OldIdsOf(fields[9], rows)
  IN  /\ pc' = "streaming" /\ Len(outfile') = Len(outfile) + 1
      /\ LET out == outfile'[Len(outfile')]
         IN  IF Cardinality(ids) = 1
             THEN /\ Len(FieldsOf(out)) = 9
                  /\ \E e \in 1..Len(rows) :
                       rows[e][1] \in ids /\ FieldsOf(out)[9] = rows[e][2]
                  /\ \A c \in 1..8 : FieldsOf(out)[c] = fields[c]
             ELSE out = input[i]

C9_NoLineAborts ==
  (prog = "gxf" /\ opened) =>
    /\ result # "crash"
    /\ pc = "done" =>
         /\ result \in {"success", "failure"}
         /\ Len(outfile) =
              Cardinality({k \in 1..Len(input) :
                             IsComment(input[k]) \/ Len(FieldsOf(input[k])) >= 8})

(***************************************************************************)
(* gff3_rename.py: properties                                              *)
(***************************************************************************)
\* C10 as stated: column 0 of a data line is replaced by a new id only if
\* exactly one old id of the table is contained in it; with none or several
\* it is written unchanged; columns 1 to 8 are never changed.
C10_ReplacedOnUniqueContainment ==
  (prog = "gff3" /\ opened) =>
    LET rows == Entries
    IN  \A k \in Handled :
          ~IsComment(input[k]) =>
            LET old == FieldsOf(input[k])
                new == FieldsOf(outfile[k])
                ids == OldIdsOf(old[1], rows)
            IN  /\ Len(new) = Len(old)
                /\ new[1] # old[1] =>
                     /\ Cardinality(ids) = 1
                     /\ \E e \in 1..Len(rows) : rows[e][1] \in ids /\ new[1] = rows[e][2]
                /\ Cardinality(ids) # 1 => new[1] = old[1]
                /\ \A c \in 2..Len(old) : new[c] = old[c]

\* the new id of the last row whose old id is id
LastRowValue(id, rows) ==
  rows[CHOOSE k \in 1..Len(rows) :
         rows[k][1] = id /\ \A j \in (k + 1)..Len(rows) : rows[j][1] # id][2]

\* C10 amended: the line written for a data line is the columns of the
\* whitespace-trimmed line joined by tabs, plus a newline, with column 0
\* replaced by a new id exactly when it is equal to an old id of the table
\* (by the new id of the last row with that old id); a column 0 that merely
\* contains an old id is written unchanged; columns 1 to 8 of the trimmed line
\* are never changed.
C10_ReplacedOnEquality ==
  (prog = "gff3" /\ opened) =>
    /\ Len(outfile) = i - 1
    /\ LET rows == Entries
       IN  \A k \in Handled :
             IF IsComment(input[k]) THEN outfile[k] = input[k]
             ELSE LET old == Split(Strip(input[k]), TAB)
                      new == FieldsOf(outfile[k])
                  IN  /\ outfile[k][Len(outfile[k])] = NL
                      /\ Len(new) = Len(old)
                      /\ new[1] = IF \E e \in 1..Len(rows) : rows[e][1] = old[1]
                                  THEN LastRowValue(old[1], rows)
                                  ELSE old[1]
                      /\ \A c \in 2..Len(old) : new[c] = old[c]

C10_Witness ==
  /\ prog = "gff3" /\ pc = "done" /\ result = "success" /\ Len(input) = 2
  /\ FieldsOf(input[1])[1] = <<"a">> /\ FieldsOf(outfile[1])[1] = <<"X">>
  /\ FieldsOf(input[2])[1] = <<"a", "b">> /\ OldIdsIn(<<"a", "b">>) = {<<"a">>}
  /\ FieldsOf(outfile[2])[1] = <<"a", "b">>

====
